---- MODULE Spec2Model ----
(***************************************************************************)
(* Model of RSAD.py, a Streamlit dashboard script.  Streamlit re-executes  *)
(* the whole script after every user interaction; the state that survives  *)
(* between executions is the uploaded file and the values of the sidebar   *)
(* widgets.  One execution of the script is ScriptRuns; every action is    *)
(* one interaction followed by one execution.                              *)
(***************************************************************************)
EXTENDS Integers, Sequences, FiniteSets

VARIABLES uploaded_file, widgets, screen, response

vars == <<uploaded_file, widgets, screen, response>>

-----------------------------------------------------------------------------
(* Bounds of the model.                                                    *)

MaxRows == 3

MaxSessionRows == 2

MaxFreeRows == 3

-----------------------------------------------------------------------------
(* Cell values of a DataFrame.                                             *)

Num(n) == [k |-> "num", v |-> n]

Str(s) == [k |-> "str", s |-> s]

Ts(y, m, d) == [k |-> "ts", y |-> y, m |-> m, d |-> d]

NaN == [k |-> "nan"]

NaT == [k |-> "nat"]

IsNA(c) == c.k \in {"nan", "nat"}

(* Python compares str values by code point.  The strings of the model, in *)
(* that order ("=" is U+003D, below every letter).                         *)
StrOrder ==
    <<"=Gift", "April", "August", "December", "East", "February", "Food",
      "January", "July", "June", "Lamp", "Loss", "March", "May",
      "November", "October", "P01", "P02", "P03", "P04", "P05", "P06",
      "P07", "P08", "P09", "P10", "P11", "P12", "Profit", "September",
      "Toys", "West">>

StrRank(s) == CHOOSE i \in 1..Len(StrOrder) : StrOrder[i] = s

CellLess(a, b) ==
    IF a.k = "num" THEN a.v < b.v ELSE StrRank(a.s) < StrRank(b.s)

(* Tuples of cells compare lexicographically (the order of a MultiIndex).  *)
RECURSIVE KeyLess(_, _)
KeyLess(a, b) ==
    IF a = <<>> \/ b = <<>> THEN FALSE
    ELSE IF Head(a) = Head(b) THEN KeyLess(Tail(a), Tail(b))
    ELSE CellLess(Head(a), Head(b))

Range(s) == {s[i] : i \in DOMAIN s}

RECURSIVE SortKeys(_)
SortKeys(S) ==
    IF S = {} THEN <<>>
    ELSE LET lo == CHOOSE k \in S : \A j \in S \ {k} : KeyLess(k, j)
         IN <<lo>> \o SortKeys(S \ {lo})

-----------------------------------------------------------------------------
(* DataFrame operations used by the script.  A DataFrame is a record of    *)
(* its column names, in order, and its rows; a row maps each column name   *)
(* to a cell.                                                              *)

Frame(columns, rows) == [columns |-> columns, rows |-> rows]

HasColumn(df, col) == col \in Range(df.columns)

(* Series.sum(): numeric sum that skips missing values; 0 when empty.      *)
RECURSIVE ColSum(_, _)
ColSum(rows, col) ==
    IF rows = <<>> THEN 0
    ELSE (IF Head(rows)[col].k = "num" THEN Head(rows)[col].v ELSE 0)
         + ColSum(Tail(rows), col)

(* Series.unique(): distinct values in order of first appearance.          *)
RECURSIVE Unique(_, _)
Unique(rows, col) ==
    IF rows = <<>> THEN <<>>
    ELSE LET init == Unique(SubSeq(rows, 1, Len(rows) - 1), col)
             last == rows[Len(rows)][col]
         IN IF last \in Range(init) THEN init ELSE Append(init, last)

(* df[col] = series: a column added to (or replaced in) every row.         *)
WithColumn(df, col, series) ==
    Frame(IF HasColumn(df, col) THEN df.columns ELSE Append(df.columns, col),
          [i \in DOMAIN df.rows |->
             [c \in DOMAIN df.rows[i] \cup {col} |->
                IF c = col THEN series[i] ELSE df.rows[i][c]]])

(* df[mask], mask a boolean Series: the rows whose mask is true, in their  *)
(* order.                                                                  *)
RECURSIVE Masked(_, _)
Masked(rows, mask) ==
    IF rows = <<>> THEN <<>>
    ELSE (IF Head(mask) THEN <<Head(rows)>> ELSE <<>>)
         \o Masked(Tail(rows), Tail(mask))

Where(df, mask) == Frame(df.columns, Masked(df.rows, mask))

(* The key of a row under groupby(cols).                                   *)
RowKey(r, cols) == [i \in DOMAIN cols |-> r[cols[i]]]

(* groupby(cols)[col].sum().reset_index(): one row per distinct key, keys  *)
(* sorted (sort=True), rows with a missing key left out (dropna=True).     *)
GroupSum(df, cols, col) ==
    LET keyed == SelectSeq(df.rows, LAMBDA r :
                     \A i \in DOMAIN cols : ~IsNA(r[cols[i]]))
        keys == SortKeys({RowKey(keyed[i], cols) : i \in DOMAIN keyed})
        total(key) == ColSum(SelectSeq(keyed, LAMBDA r :
                                 RowKey(r, cols) = key), col)
    IN Frame(cols \o <<col>>,
             [i \in DOMAIN keys |->
                [c \in Range(cols) \cup {col} |->
                   IF c = col THEN Num(total(keys[i]))
                   ELSE keys[i][CHOOSE j \in DOMAIN cols : cols[j] = c]]])

(* DataFrame.head(n).                                                      *)
HeadN(s, n) == SubSeq(s, 1, IF Len(s) < n THEN Len(s) ELSE n)

(* sort_values() on the summed column, ascending.  The default kind is     *)
(* quicksort, which pandas documents as not stable: rows with equal values *)
(* may come out in any order.  The set of orders the call can return.      *)
RECURSIVE SortValues(_, _)
SortValues(rows, col) ==
    IF rows = <<>> THEN {<<>>}
    ELSE LET least == {i \in DOMAIN rows :
                          \A j \in DOMAIN rows : rows[i][col].v <= rows[j][col].v}
             without(i) == [j \in 1..(Len(rows) - 1) |->
                              IF j < i THEN rows[j] ELSE rows[j + 1]]
         IN UNION {{<<rows[i]>> \o t : t \in SortValues(without(i), col)} :
                      i \in least}

-----------------------------------------------------------------------------
(* The uploaded file: its name, the format its bytes are in, and the table *)
(* those bytes hold.  A name is the sequence of its characters.            *)

RequiredColumns ==
    <<"Order Date", "Region", "Category", "Product", "Sales", "Profit">>

NoFile == [present |-> FALSE]

File(name, format, columns, rows) ==
    [present |-> TRUE, name |-> name, format |-> format,
     columns |-> columns, rows |-> rows]

CsvName == <<"s", "a", "l", "e", "s", ".", "c", "s", "v">>

XlsxName == <<"s", "a", "l", "e", "s", ".", "x", "l", "s", "x">>

(* The uploader compares the extension of a name with its type list        *)
(* without regard to case, so this name is let through.                    *)
UpperCsvName == <<"S", "A", "L", "E", "S", ".", "C", "S", "V">>

DotCsv == <<".", "c", "s", "v">>

(* str.endswith: case-sensitive.                                           *)
EndsWith(name, suffix) ==
    /\ Len(name) >= Len(suffix)
    /\ SubSeq(name, Len(name) - Len(suffix) + 1, Len(name)) = suffix

(* One row of a file.                                                      *)
Row(date, region, category, product, sales, profit) ==
    [c \in Range(RequiredColumns) |->
        CASE c = "Order Date" -> date
          [] c = "Region" -> Str(region)
          [] c = "Category" -> Str(category)
          [] c = "Product" -> Str(product)
          [] c = "Sales" -> Num(sales)
          [] c = "Profit" -> Num(profit)]

(* pd.read_csv (line 23) raises on bytes that are no text, as those of a   *)
(* workbook (a zip archive), and on a text without columns (an empty       *)
(* file: EmptyDataError).                                                  *)
ReadCsvRaises(f) == f.format # "csv" \/ f.columns = <<>>

(* pd.read_excel (line 25) raises on bytes that are no workbook.  A sheet  *)
(* without cells reads as a table without columns.                         *)
ReadExcelRaises(f) == f.format # "xlsx"

(* Lines 22-25: the branch taken and whether its read raises.              *)
ReadLine(f) == IF EndsWith(f.name, DotCsv) THEN 23 ELSE 25

ReadRaises(f) ==
    IF EndsWith(f.name, DotCsv) THEN ReadCsvRaises(f) ELSE ReadExcelRaises(f)

(* Lines 22-25: df after a read that did not raise, the table of the       *)
(* file's columns in either branch.  A date written as text is still the   *)
(* text of its cell; a date cell of a workbook is a timestamp.             *)
ReadFile(f) ==
    Frame(f.columns,
          [i \in DOMAIN f.rows |->
             [c \in Range(f.columns) |-> f.rows[i][c]]])

(* pd.to_datetime on one cell: an empty cell becomes NaT, a date text its  *)
(* timestamp, a timestamp stays; any other text makes the call raise.      *)
DateTexts ==
    [s \in {"2023-01-15", "2023-01-20", "2023-02-10", "2024-01-05"} |->
        CASE s = "2023-01-15" -> Ts(2023, 1, 15)
          [] s = "2023-01-20" -> Ts(2023, 1, 20)
          [] s = "2023-02-10" -> Ts(2023, 2, 10)
          [] s = "2024-01-05" -> Ts(2024, 1, 5)]

Parseable(c) ==
    IsNA(c) \/ c.k = "ts" \/ (c.k = "str" /\ c.s \in DOMAIN DateTexts)

ToDatetime(c) ==
    IF IsNA(c) THEN NaT ELSE IF c.k = "ts" THEN c ELSE DateTexts[c.s]

(* Series.dt.year and Series.dt.month_name(): missing for NaT.             *)
MonthNames ==
    <<"January", "February", "March", "April", "May", "June", "July",
      "August", "September", "October", "November", "December">>

DtYear(c) == IF c.k = "ts" THEN Num(c.y) ELSE NaN

DtMonthName(c) == IF c.k = "ts" THEN Str(MonthNames[c.m]) ELSE NaN

(* Lines 31-33.                                                            *)
DateProcessing(df) ==
    LET a == WithColumn(df, "Order Date",
                        [i \in DOMAIN df.rows |->
                           ToDatetime(df.rows[i]["Order Date"])])
        b == WithColumn(a, "Year",
                        [i \in DOMAIN a.rows |-> DtYear(a.rows[i]["Order Date"])])
    IN WithColumn(b, "Month",
                  [i \in DOMAIN b.rows |-> DtMonthName(b.rows[i]["Order Date"])])

-----------------------------------------------------------------------------
(* Sidebar widgets.  Streamlit keeps a widget's value between executions   *)
(* as long as the widget is built from the same options; a widget built    *)
(* from other options, or not built in the previous execution, starts from *)
(* its default, which lines 39 and 43 set to all the options.              *)

NoWidgets == [region |-> <<>>, category |-> <<>>]

Widget(options, value) == [options |-> options, value |-> value]

MultiSelect(state, options) ==
    IF state # <<>> /\ state[1].options = options THEN state[1].value
    ELSE Range(options)

-----------------------------------------------------------------------------
(* Spreadsheet export (lines 102-107) and reading a sheet back.            *)

(* xlsxwriter's Worksheet.write(), which pandas calls for every cell,      *)
(* writes a text that starts with "=" as a formula (strings_to_formulas is *)
(* on by default) with the cached result 0.  The texts of the model that   *)
(* start with "=".                                                         *)
FormulaTexts == {"=Gift"}

ToExcelCell(c) ==
    CASE c.k = "num" -> [x |-> "number", v |-> c.v]
      [] c.k = "ts" -> [x |-> "datetime", y |-> c.y, m |-> c.m, d |-> c.d]
      [] c.k = "str" ->
           IF c.s \in FormulaTexts
           THEN [x |-> "formula", f |-> c.s, cached |-> 0]
           ELSE [x |-> "string", s |-> c.s]
      [] OTHER -> [x |-> "blank"]

(* DataFrame.to_excel(writer, index=False): a header row, then the rows.   *)
ToExcel(df) ==
    [header |-> df.columns,
     rows |-> [i \in DOMAIN df.rows |->
                 [j \in DOMAIN df.columns |->
                    ToExcelCell(df.rows[i][df.columns[j]])]]]

(* pd.read_excel on one cell; a formula cell reads as its cached result.   *)
FromExcelCell(x) ==
    CASE x.x = "number" -> Num(x.v)
      [] x.x = "datetime" -> Ts(x.y, x.m, x.d)
      [] x.x = "string" -> Str(x.s)
      [] x.x = "formula" -> Num(x.cached)
      [] OTHER -> NaN

ReadExcel(sheet) ==
    Frame(sheet.header,
          [i \in DOMAIN sheet.rows |->
             [c \in Range(sheet.header) |->
                FromExcelCell(sheet.rows[i][CHOOSE j \in DOMAIN sheet.header :
                                               sheet.header[j] = c])]])

ExcelReport(filtered_df, region_sales, category_sales, profit_loss) ==
    [s \in {"Filtered Data", "Region Sales", "Category Sales", "Profit Loss"} |->
        CASE s = "Filtered Data" -> ToExcel(filtered_df)
          [] s = "Region Sales" -> ToExcel(region_sales)
          [] s = "Category Sales" -> ToExcel(category_sales)
          [] s = "Profit Loss" -> ToExcel(profit_loss)]

(* The PDF summary (lines 119-136): title, three KPI paragraphs, and the   *)
(* profit/loss table with its header row.                                  *)
PdfReport(total_sales, total_profit, total_orders, profit_loss) ==
    [title |-> "Retail Sales Analysis Report",
     paragraphs |-> <<<<"Total Sales", total_sales>>,
                      <<"Total Profit", total_profit>>,
                      <<"Total Orders", total_orders>>>>,
     heading |-> "Profit vs Loss Summary",
     table |-> <<profit_loss.columns>> \o
               [i \in DOMAIN profit_loss.rows |->
                  [j \in DOMAIN profit_loss.columns |->
                     profit_loss.rows[i][profit_loss.columns[j]]]]]

-----------------------------------------------------------------------------
(* One execution of the script.                                            *)

PreviewRows == 5

TopN == 10

(* The line at which the script raises on file f, 0 if it runs to the end. *)
(* The read of the file raises at its own line; indexing a column the      *)
(* table lacks raises KeyError; to_datetime raises on a text that is no    *)
(* date.                                                                   *)
StopLine(f) ==
    LET has(c) == c \in Range(f.columns)
    IN IF ReadRaises(f) THEN ReadLine(f)
       ELSE IF ~has("Order Date") THEN 31
       ELSE IF \E i \in DOMAIN f.rows : ~Parseable(f.rows[i]["Order Date"])
            THEN 31
       ELSE IF ~has("Region") THEN 39
       ELSE IF ~has("Category") THEN 43
       ELSE IF ~has("Sales") THEN 52
       ELSE IF ~has("Profit") THEN 53
       ELSE IF ~has("Product") THEN 93
       ELSE 0

Reached(f, line) == StopLine(f) = 0 \/ line < StopLine(f)

(* Filter with the two masks joined by | instead of &.                     *)
FilterEither(df, region_filter, category_filter) ==
    Where(df, [i \in DOMAIN df.rows |->
                 \/ df.rows[i]["Region"] \in region_filter
                 \/ df.rows[i]["Category"] \in category_filter])

(* Filter that reads an empty selection as "no restriction".               *)
FilterEmptyMeansAll(df, region_filter, category_filter) ==
    Where(df, [i \in DOMAIN df.rows |->
                 /\ (region_filter = {}
                        \/ df.rows[i]["Region"] \in region_filter)
                 /\ (category_filter = {}
                        \/ df.rows[i]["Category"] \in category_filter)])

(* Lines 46-49.                                                            *)
Filter(df, region_filter, category_filter) ==
    Where(df, [i \in DOMAIN df.rows |->
                 /\ df.rows[i]["Region"] \in region_filter
                 /\ df.rows[i]["Category"] \in category_filter])

(* ProfitStatus with the comparison >= 0.                                  *)
ProfitStatusZeroIsProfit(x) ==
    IF x.k = "num" /\ x.v >= 0 THEN Str("Profit") ELSE Str("Loss")

(* ProfitStatus that labels only the profits.                              *)
ProfitStatusNoLoss(x) ==
    IF x.k = "num" /\ x.v > 0 THEN Str("Profit") ELSE NaN

(* Lines 81-83.                                                            *)
ProfitStatus(x) ==
    IF x.k = "num" /\ x.v > 0 THEN Str("Profit") ELSE Str("Loss")

(* LossProducts with head(10) taken before sort_values().                  *)
LossProductsHeadFirst(filtered_df) ==
    LET losses == Where(filtered_df,
                        [i \in DOMAIN filtered_df.rows |->
                           /\ filtered_df.rows[i]["Profit"].k = "num"
                           /\ filtered_df.rows[i]["Profit"].v < 0])
        grouped == GroupSum(losses, <<"Product">>, "Profit")
    IN {Frame(grouped.columns, s) :
           s \in SortValues(HeadN(grouped.rows, TopN), "Profit")}

(* LossProducts with the groups left as groupby returns them, by Product.  *)
LossProductsUnsorted(filtered_df) ==
    LET losses == Where(filtered_df,
                        [i \in DOMAIN filtered_df.rows |->
                           /\ filtered_df.rows[i]["Profit"].k = "num"
                           /\ filtered_df.rows[i]["Profit"].v < 0])
        grouped == GroupSum(losses, <<"Product">>, "Profit")
    IN {Frame(grouped.columns, HeadN(grouped.rows, TopN))}

(* Lines 91-98: the lists the statement can produce.                       *)
LossProducts(filtered_df) ==
    LET losses == Where(filtered_df,
                        [i \in DOMAIN filtered_df.rows |->
                           /\ filtered_df.rows[i]["Profit"].k = "num"
                           /\ filtered_df.rows[i]["Profit"].v < 0])
        grouped == GroupSum(losses, <<"Product">>, "Profit")
    IN {Frame(grouped.columns, HeadN(s, TopN)) :
           s \in SortValues(grouped.rows, "Profit")}

EmptyScreen ==
    [info |-> FALSE, success |-> FALSE, preview |-> <<>>,
     filtered_df |-> <<>>, kpis |-> <<>>,
     monthly_sales |-> <<>>, region_sales |-> <<>>, category_sales |-> <<>>,
     profit_loss |-> <<>>, loss_products |-> <<>>, excel |-> <<>>,
     pdf |-> <<>>, error |-> 0]

(* An element is present (a one-element sequence) when its line was        *)
(* reached.                                                                *)
At(f, line, x) == IF Reached(f, line) THEN <<x>> ELSE <<>>

(* What the page shows at the end of an execution.  filtered_df is the     *)
(* script's variable of that name at the end; the page shows it only       *)
(* through the KPIs, charts and exports.                                   *)
Page(f, raw, filtered, filtered_df, region_sales, category_sales, profit_loss, loss_products) ==
    [info |-> FALSE,
     success |-> Reached(f, 27),
     preview |-> At(f, 28, HeadN(raw.rows, PreviewRows)),
     filtered_df |-> IF Reached(f, 83) THEN <<filtered_df>>
                     ELSE At(f, 49, filtered),
     kpis |-> At(f, 59, [sales |-> ColSum(filtered.rows, "Sales"),
                         profit |-> ColSum(filtered.rows, "Profit"),
                         orders |-> Len(filtered.rows)]),
     monthly_sales |-> At(f, 65, GroupSum(filtered, <<"Year", "Month">>, "Sales")),
     region_sales |-> At(f, 71, region_sales),
     category_sales |-> At(f, 77, category_sales),
     profit_loss |-> At(f, 87, profit_loss),
     loss_products |-> IF Reached(f, 99) THEN <<loss_products>> ELSE <<>>,
     excel |-> At(f, 109, ExcelReport(filtered_df, region_sales,
                                      category_sales, profit_loss)),
     pdf |-> At(f, 138, PdfReport(ColSum(filtered.rows, "Sales"),
                                  ColSum(filtered.rows, "Profit"),
                                  Len(filtered.rows), profit_loss)),
     error |-> StopLine(f)]

(* Lines 51-143: KPIs, aggregates, the lists line 91 can produce, exports. *)
Analysis(f, raw, region, category, filtered, filtered_df) ==
    {[screen |-> Page(f, raw, filtered, filtered_df,
                      GroupSum(filtered, <<"Region">>, "Sales"),
                      GroupSum(filtered, <<"Category">>, "Sales"),
                      GroupSum(filtered_df, <<"Profit Status">>, "Profit"),
                      lp),
      widgets |-> [region |-> At(f, 40, region),
                   category |-> At(f, 44, category)]] :
        lp \in IF Reached(f, 99) THEN LossProducts(filtered_df) ELSE {<<>>}}

(* Lines 46-49 and 81-83: the filtered table and its Profit Status column. *)
Filtered(f, raw, region, category, filtered) ==
    Analysis(f, raw, region, category, filtered,
             WithColumn(filtered, "Profit Status",
                        [i \in DOMAIN filtered.rows |->
                           ProfitStatus(filtered.rows[i]["Profit"])]))

(* One sidebar multiselect over the distinct values of a column.           *)
SidebarWidget(state, options) == Widget(options, MultiSelect(state, options))

(* Lines 36-49.                                                            *)
Sidebar(f, raw, df, region, category) ==
    Filtered(f, raw, region, category, Filter(df, region.value, category.value))

(* Lines 31-44.                                                            *)
Loaded(f, w, raw, df) ==
    Sidebar(f, raw, df,
            SidebarWidget(w.region, Unique(df.rows, "Region")),
            SidebarWidget(w.category, Unique(df.rows, "Category")))

(* The executions of the script on file f with the widget state w: each is *)
(* the page at the end and the widget state it leaves.  A statement that   *)
(* raises ends the execution; what was drawn before it stays on the page.  *)
Executions(f, w, raw) == Loaded(f, w, raw, DateProcessing(raw))

ScriptRuns(f, w) ==
    IF ~f.present
    THEN {[screen |-> [EmptyScreen EXCEPT !.info = TRUE], widgets |-> NoWidgets]}
    ELSE Executions(f, w, ReadFile(f))

-----------------------------------------------------------------------------
(* The files the user uploads.                                             *)

SeqsUpTo(S, n) == UNION {[1..k -> S] : k \in 0..n}

Files(rowdom, n) ==
    {File(CsvName, "csv", RequiredColumns, rows) : rows \in SeqsUpTo(rowdom, n)}

Without(columns, c) == SelectSeq(columns, LAMBDA x : x # c)

(* Session files: well-formed ones, one file per missing column, one whose *)
(* date column holds a text that is no date, files whose read raises (an   *)
(* empty CSV file, a name whose extension does not go with the bytes), and *)
(* workbooks.                                                              *)
SessionRows ==
    {Row(Str("2023-01-15"), rg, ct, "Lamp", IF ct = "Food" THEN 1 ELSE 3,
         IF rg = "East" THEN -1 ELSE 2) :
        rg \in {"East", "West"}, ct \in {"Food", "Toys"}}

MalformedFiles ==
    {File(CsvName, "csv", Without(RequiredColumns, c),
          <<Row(Str("2023-01-15"), "East", "Food", "Lamp", 3, 1)>>) :
        c \in Range(RequiredColumns)}
    \cup {File(CsvName, "csv", RequiredColumns,
               <<Row(Str("soon"), "East", "Food", "Lamp", 3, 1)>>)}

UnreadableFiles ==
    {File(CsvName, "csv", <<>>, <<>>),
     File(UpperCsvName, "csv", RequiredColumns,
          <<Row(Str("2023-01-15"), "East", "Food", "Lamp", 3, 1)>>),
     File(CsvName, "xlsx", RequiredColumns,
          <<Row(Str("2023-01-15"), "East", "Food", "Lamp", 3, 1)>>)}

WorkbookFiles ==
    {File(XlsxName, "xlsx", <<>>, <<>>),
     File(XlsxName, "xlsx", RequiredColumns,
          <<Row(Ts(2023, 1, 15), "West", "Toys", "Lamp", 3, 2)>>)}

SessionFiles ==
    Files(SessionRows, MaxSessionRows) \cup MalformedFiles
    \cup UnreadableFiles \cup WorkbookFiles

-----------------------------------------------------------------------------
(* The session: the state Streamlit keeps between executions, the page of  *)
(* the last execution, and the download response being sent, if any.       *)

NoResponse == <<>>

Rerun(f, w) ==
    \E r \in ScriptRuns(f, w) : screen' = r.screen /\ widgets' = r.widgets

Init ==
    /\ uploaded_file = NoFile
    /\ \E r \in ScriptRuns(NoFile, NoWidgets) :
          screen = r.screen /\ widgets = r.widgets
    /\ response = NoResponse

(* The user puts a file into the uploader (lines 15-18).                   *)
Upload(pool) ==
    \E f \in pool :
       /\ uploaded_file' = f
       /\ Rerun(f, widgets)
       /\ response' = NoResponse

(* The user clears the uploader: line 20 takes the else branch.            *)
RemoveFile ==
    /\ uploaded_file.present
    /\ uploaded_file' = NoFile
    /\ Rerun(NoFile, widgets)
    /\ response' = NoResponse

(* The user changes the region multiselect (lines 38-40).                  *)
ChangeRegionFilter ==
    /\ widgets.region # <<>>
    /\ \E sel \in SUBSET Range(widgets.region[1].options) :
          /\ sel # widgets.region[1].value
          /\ Rerun(uploaded_file,
                   [widgets EXCEPT !.region =
                       <<Widget(widgets.region[1].options, sel)>>])
    /\ response' = NoResponse
    /\ UNCHANGED uploaded_file

(* ChangeCategoryFilter that keeps the page of the previous selection, as  *)
(* a cache keyed by the file alone would.                                  *)
ChangeCategoryFilterCached ==
    /\ widgets.category # <<>>
    /\ \E sel \in SUBSET Range(widgets.category[1].options) :
          /\ sel # widgets.category[1].value
          /\ widgets' = [widgets EXCEPT !.category =
                            <<Widget(widgets.category[1].options, sel)>>]
    /\ response' = NoResponse
    /\ UNCHANGED <<uploaded_file, screen>>

(* The user changes the category multiselect (lines 42-44).                *)
ChangeCategoryFilter ==
    /\ widgets.category # <<>>
    /\ \E sel \in SUBSET Range(widgets.category[1].options) :
          /\ sel # widgets.category[1].value
          /\ Rerun(uploaded_file,
                   [widgets EXCEPT !.category =
                       <<Widget(widgets.category[1].options, sel)>>])
    /\ response' = NoResponse
    /\ UNCHANGED uploaded_file

(* A click on a download button sends the bytes the button was built with  *)
(* and, like every interaction, runs the script again (lines 109-114 and   *)
(* 138-143).                                                               *)
DownloadExcel ==
    /\ screen.excel # <<>>
    /\ response' = <<[file_name |-> "Retail_Sales_Report.xlsx",
                      data |-> screen.excel[1]]>>
    /\ Rerun(uploaded_file, widgets)
    /\ UNCHANGED uploaded_file

DownloadPdf ==
    /\ screen.pdf # <<>>
    /\ response' = <<[file_name |-> "Retail_Sales_Summary.pdf",
                      data |-> screen.pdf[1]]>>
    /\ Rerun(uploaded_file, widgets)
    /\ UNCHANGED uploaded_file

UploadSession == Upload(SessionFiles)

Next ==
    \/ UploadSession
    \/ RemoveFile
    \/ ChangeRegionFilter
    \/ ChangeCategoryFilter
    \/ DownloadExcel
    \/ DownloadPdf

Spec == Init /\ [][Next]_vars

-----------------------------------------------------------------------------
(* Specifications for the pipeline as a function of the uploaded table and *)
(* the selection: one upload per session, from a pool that varies the      *)
(* columns the stage under study reads.                                    *)

FirstUpload(pool) == ~uploaded_file.present /\ Upload(pool)

FilterRows ==
    {Row(Str("2023-01-15"), rg, ct, "Lamp", 1, p) :
        rg \in {"East", "West"}, ct \in {"Food", "Toys"}, p \in {-1, 2}}

UploadFilter == FirstUpload(Files(FilterRows, MaxRows))

NextFilter == UploadFilter \/ ChangeRegionFilter \/ ChangeCategoryFilter

SpecFilter == Init /\ [][NextFilter]_vars

(* Tables that vary the order date, including an empty date cell.         *)
TrendRows ==
    {Row(d, rg, "Food", "Lamp", s, 1) :
        d \in {NaN, Str("2023-01-15"), Str("2023-01-20"), Str("2023-02-10"),
               Str("2024-01-05")},
        rg \in {"East", "West"}, s \in {1, 2}}

UploadTrend == FirstUpload(Files(TrendRows, MaxRows))

NextTrend == UploadTrend \/ ChangeRegionFilter \/ ChangeCategoryFilter

SpecTrend == Init /\ [][NextTrend]_vars

(* Tables that vary the profit, including zero, and the product.           *)
ProfitRows ==
    {Row(Str("2023-01-15"), rg, "Food", pr, 1, p) :
        rg \in {"East", "West"}, pr \in {"Lamp", "P01"}, p \in {-2, 0, 1}}

UploadProfit == FirstUpload(Files(ProfitRows, MaxRows))

NextProfit == UploadProfit \/ ChangeRegionFilter \/ ChangeCategoryFilter

SpecProfit == Init /\ [][NextProfit]_vars

(* Tables that vary what the spreadsheet has to carry: a product name that *)
(* starts with "=", an empty date cell.                                    *)
ExportRows ==
    {Row(d, rg, "Food", pr, 1, -1) :
        d \in {NaN, Str("2023-01-15")}, rg \in {"East", "West"},
        pr \in {"Lamp", "=Gift"}}

UploadExport == FirstUpload(Files(ExportRows, MaxRows))

NextExport ==
    \/ UploadExport
    \/ ChangeRegionFilter
    \/ ChangeCategoryFilter
    \/ DownloadExcel

SpecExport == Init /\ [][NextExport]_vars

(* Tables with more loss-making products than the top-loss list holds:     *)
(* ten products with one loss each, all different, preceded by up to       *)
(* MaxFreeRows rows that add an eleventh product, tie with a listed one,   *)
(* or add to a listed one from the other region.                           *)
LossBase ==
    <<Row(Str("2023-01-15"), "East", "Food", "P10", 1, -20),
      Row(Str("2023-01-15"), "East", "Food", "P09", 1, -21),
      Row(Str("2023-01-15"), "East", "Food", "P08", 1, -22),
      Row(Str("2023-01-15"), "East", "Food", "P07", 1, -23),
      Row(Str("2023-01-15"), "East", "Food", "P06", 1, -24),
      Row(Str("2023-01-15"), "East", "Food", "P05", 1, -25),
      Row(Str("2023-01-15"), "East", "Food", "P04", 1, -26),
      Row(Str("2023-01-15"), "East", "Food", "P03", 1, -27),
      Row(Str("2023-01-15"), "East", "Food", "P02", 1, -28),
      Row(Str("2023-01-15"), "East", "Food", "P01", 1, -29)>>

LossFreeRows ==
    {Row(Str("2023-01-15"), IF pr = "P01" THEN "West" ELSE "East", "Food",
         pr, 1, p) :
        pr \in {"P11", "P01"}, p \in {-21, -20, -5, 4}}

LossFiles ==
    {File(CsvName, "csv", RequiredColumns, rows \o LossBase) :
        rows \in SeqsUpTo(LossFreeRows, MaxFreeRows)}

UploadLoss == FirstUpload(LossFiles)

NextLoss == UploadLoss \/ ChangeRegionFilter \/ ChangeCategoryFilter

SpecLoss == Init /\ [][NextLoss]_vars

-----------------------------------------------------------------------------
(* The state as the claims read it.                                        *)

(* The script ran to its last line on the uploaded file.                   *)
Completed == uploaded_file.present /\ screen.error = 0 /\ screen.pdf # <<>>

(* The table after loading and date processing (lines 22-33).              *)
Dataset == DateProcessing(ReadFile(uploaded_file))

RegionSelection == widgets.region[1].value

CategorySelection == widgets.category[1].value

Selected(r) ==
    r["Region"] \in RegionSelection /\ r["Category"] \in CategorySelection

Count(rows, P(_)) == Cardinality({i \in DOMAIN rows : P(rows[i])})

(* s is t with some rows struck out: an order-preserving embedding.        *)
RECURSIVE IsSubSeq(_, _)
IsSubSeq(s, t) ==
    IF s = <<>> THEN TRUE
    ELSE IF t = <<>> THEN FALSE
    ELSE IF Head(s) = Head(t) THEN IsSubSeq(Tail(s), Tail(t))
    ELSE IsSubSeq(s, Tail(t))

(* The row without the column derived at line 81.                          *)
Original(r) == [c \in DOMAIN r \ {"Profit Status"} |-> r[c]]

Originals(rows) == [i \in DOMAIN rows |-> Original(rows[i])]

-----------------------------------------------------------------------------
(* C1: the filter stage keeps exactly the rows whose Region and Category   *)
(* are both selected: never more rows than the Dataset, every kept row     *)
(* selected, no selected row left out, rows in their original order.       *)
C1_FilterExact ==
    Completed =>
       LET kept == Originals(screen.filtered_df[1].rows)
       IN /\ Len(kept) <= Len(Dataset.rows)
          /\ \A i \in DOMAIN kept : Selected(kept[i])
          /\ Len(kept) = Count(Dataset.rows, Selected)
          /\ IsSubSeq(kept, Dataset.rows)
          /\ screen.kpis[1].orders = Count(Dataset.rows, Selected)

(* A selection that keeps some rows and drops others.                      *)
C1_Witness ==
    /\ Completed
    /\ Len(screen.filtered_df[1].rows) = 2
    /\ Len(Dataset.rows) = 3
    /\ RegionSelection = {Str("East")}
    /\ Cardinality(CategorySelection) = 2

-----------------------------------------------------------------------------
(* C2: the Sales of the monthly-trend groups add up to the total-sales     *)
(* KPI, the sum of Sales over the filtered rows: no filtered row is        *)
(* dropped from or counted twice in the grouping.                          *)
C2_MonthlyConserves ==
    Completed =>
       /\ ColSum(screen.monthly_sales[1].rows, "Sales") = screen.kpis[1].sales
       /\ \A i \in DOMAIN screen.filtered_df[1].rows :
             \E j \in DOMAIN screen.monthly_sales[1].rows :
                /\ screen.monthly_sales[1].rows[j]["Year"]
                      = screen.filtered_df[1].rows[i]["Year"]
                /\ screen.monthly_sales[1].rows[j]["Month"]
                      = screen.filtered_df[1].rows[i]["Month"]

-----------------------------------------------------------------------------
(* C3: the Profit of the Profit/Loss entries adds up to the total-profit   *)
(* KPI, the sum of Profit over the filtered rows.                          *)
SumOver(rows, col, P(_)) == ColSum(SelectSeq(rows, P), col)

C3_ProfitLossConserves ==
    Completed =>
       /\ ColSum(screen.profit_loss[1].rows, "Profit") = screen.kpis[1].profit
       /\ screen.kpis[1].profit = SumOver(Dataset.rows, "Profit", Selected)

(* Both entries are present and the filter has dropped a row.              *)
C3_Witness ==
    /\ Completed
    /\ Len(screen.profit_loss[1].rows) = 2
    /\ screen.kpis[1].profit = -1
    /\ screen.kpis[1].orders = 2
    /\ Len(Dataset.rows) = 3

-----------------------------------------------------------------------------
(* C9: every filtered record has exactly one Profit Status, "Profit" if    *)
(* and only if its Profit is above 0 and "Loss" otherwise; a record with   *)
(* Profit 0 is a Loss, its Profit is summed into the Loss entry, and it is *)
(* no part of the top-loss grouping, which takes Profit < 0 only.          *)
IsProfit(r) == r["Profit"].v > 0

IsLoss(r) == r["Profit"].v < 0

Entry(df, col, key) == {i \in DOMAIN df.rows : df.rows[i][col] = key}

C9_ProfitStatus ==
    Completed =>
       LET rows == screen.filtered_df[1].rows
           pl == screen.profit_loss[1]
           lp == screen.loss_products[1]
       IN /\ \A i \in DOMAIN rows :
                /\ rows[i]["Profit Status"] \in {Str("Profit"), Str("Loss")}
                /\ rows[i]["Profit Status"] = Str("Profit") <=> IsProfit(rows[i])
          /\ (\E i \in DOMAIN rows : ~IsProfit(rows[i]))
                <=> Entry(pl, "Profit Status", Str("Loss")) # {}
          /\ \A j \in Entry(pl, "Profit Status", Str("Loss")) :
                pl.rows[j]["Profit"].v
                   = SumOver(rows, "Profit", LAMBDA r : ~IsProfit(r))
          /\ \A i \in DOMAIN rows :
                (\A q \in DOMAIN rows :
                    rows[q]["Product"] = rows[i]["Product"] => ~IsLoss(rows[q]))
                => Entry(lp, "Product", rows[i]["Product"]) = {}
          /\ \A j \in DOMAIN lp.rows :
                lp.rows[j]["Profit"].v
                   = SumOver(rows, "Profit", LAMBDA r :
                        r["Product"] = lp.rows[j]["Product"] /\ IsLoss(r))

(* A zero-profit record of one product beside a loss of another: the Loss  *)
(* entry holds both, the top-loss list only the second product.            *)
C9_Witness ==
    /\ Completed
    /\ \E i \in DOMAIN screen.filtered_df[1].rows :
          /\ screen.filtered_df[1].rows[i]["Profit"].v = 0
          /\ screen.filtered_df[1].rows[i]["Product"] = Str("Lamp")
          /\ screen.filtered_df[1].rows[i]["Profit Status"] = Str("Loss")
    /\ \E i \in DOMAIN screen.filtered_df[1].rows :
          /\ screen.filtered_df[1].rows[i]["Profit"].v = -2
          /\ screen.filtered_df[1].rows[i]["Product"] = Str("P01")
    /\ Len(screen.filtered_df[1].rows) = 2
    /\ Len(screen.loss_products[1].rows) = 1
    /\ screen.profit_loss[1].rows = <<[c \in {"Profit Status", "Profit"} |->
                                         IF c = "Profit" THEN Num(-2)
                                         ELSE Str("Loss")]>>

-----------------------------------------------------------------------------
(* C8: a selection that keeps no row (no Region selected, no Category      *)
(* selected, or no row matching) is no error: the execution completes with *)
(* KPIs 0, 0 and 0, empty aggregates, an empty top-loss list, and both     *)
(* export artifacts.                                                       *)
NothingSelected ==
    /\ uploaded_file.present
    /\ widgets.region # <<>>
    /\ widgets.category # <<>>
    /\ Count(Dataset.rows, Selected) = 0

C8_EmptySelection ==
    NothingSelected =>
       /\ screen.error = 0
       /\ screen.filtered_df # <<>> /\ screen.filtered_df[1].rows = <<>>
       /\ screen.kpis = <<[sales |-> 0, profit |-> 0, orders |-> 0]>>
       /\ \A a \in {screen.monthly_sales, screen.region_sales,
                    screen.category_sales, screen.profit_loss,
                    screen.loss_products} :
             a # <<>> /\ a[1].rows = <<>>
       /\ screen.excel # <<>>
       /\ \A s \in DOMAIN screen.excel[1] : screen.excel[1][s].rows = <<>>
       /\ screen.pdf # <<>>
       /\ Len(screen.pdf[1].table) = 1

(* Both selections are non-empty and yet no row of a three-row table       *)
(* matches.                                                                *)
C8_Witness ==
    /\ NothingSelected
    /\ Len(Dataset.rows) = 3
    /\ RegionSelection # {}
    /\ CategorySelection # {}
    /\ screen.pdf # <<>>

(* No Region is selected.                                                  *)
C8_WitnessNoRegion ==
    /\ NothingSelected
    /\ Len(Dataset.rows) = 3
    /\ RegionSelection = {}
    /\ screen.excel # <<>>

-----------------------------------------------------------------------------
(* C4: the top-loss list has at most 10 entries, each the sum of Profit    *)
(* over its Product's filtered rows with Profit < 0, every value below 0,  *)
(* the values ascending, and no Product left out of the list has a smaller *)
(* loss sum than a listed one.                                             *)
LossOf(rows, product) ==
    SumOver(rows, "Profit", LAMBDA r : r["Product"] = product /\ IsLoss(r))

LossMakers(rows) ==
    {rows[i]["Product"] : i \in {j \in DOMAIN rows : IsLoss(rows[j])}}

Listed(lp) == {lp.rows[i]["Product"] : i \in DOMAIN lp.rows}

C4_TopLoss ==
    Completed =>
       LET rows == screen.filtered_df[1].rows
           lp == screen.loss_products[1]
       IN /\ Len(lp.rows) <= 10
          /\ \A i \in DOMAIN lp.rows :
                /\ lp.rows[i]["Product"] \in LossMakers(rows)
                /\ lp.rows[i]["Profit"].v = LossOf(rows, lp.rows[i]["Product"])
                /\ lp.rows[i]["Profit"].v < 0
          /\ \A i, j \in DOMAIN lp.rows :
                i < j => lp.rows[i]["Profit"].v <= lp.rows[j]["Profit"].v
          /\ \A i, j \in DOMAIN lp.rows :
                i # j => lp.rows[i]["Product"] # lp.rows[j]["Product"]
          /\ \A q \in LossMakers(rows) \ Listed(lp) :
                /\ Len(lp.rows) = 10
                /\ \A i \in DOMAIN lp.rows : LossOf(rows, q) >= lp.rows[i]["Profit"].v

(* Eleven loss-making products, one of them with two loss rows: the list   *)
(* is full and the product with the smallest loss is left out.             *)
C4_Witness ==
    /\ Completed
    /\ Cardinality(LossMakers(screen.filtered_df[1].rows)) = 11
    /\ Len(screen.loss_products[1].rows) = 10
    /\ screen.loss_products[1].rows[1]["Profit"].v = -34
    /\ LossOf(screen.filtered_df[1].rows, Str("P11")) = -5
    /\ Str("P11") \notin Listed(screen.loss_products[1])

-----------------------------------------------------------------------------
(* C10 as claimed: Products with equal summed loss appear in the list, and *)
(* are cut off at 10, in the order in which they first occur in the input  *)
(* Dataset.                                                                *)
FirstRow(product) ==
    CHOOSE i \in DOMAIN Dataset.rows :
       /\ Dataset.rows[i]["Product"] = product
       /\ \A j \in 1..(i - 1) : Dataset.rows[j]["Product"] # product

C10_TiesInInputOrder ==
    Completed =>
       LET rows == screen.filtered_df[1].rows
           lp == screen.loss_products[1]
       IN /\ \A i, j \in DOMAIN lp.rows :
                (i < j /\ lp.rows[i]["Profit"] = lp.rows[j]["Profit"])
                => FirstRow(lp.rows[i]["Product"]) < FirstRow(lp.rows[j]["Product"])
          /\ \A q \in LossMakers(rows) \ Listed(lp) :
                \A i \in DOMAIN lp.rows :
                   lp.rows[i]["Profit"].v = LossOf(rows, q)
                   => FirstRow(lp.rows[i]["Product"]) < FirstRow(q)

(* C10 as amended: the values of the list are determined by the Dataset    *)
(* and the FilterSelection: position i holds the i-th smallest loss sum,   *)
(* the list is as long as there are loss-making Products, up to 10, and a  *)
(* Product whose sum no other Product equals has its place fixed.  The     *)
(* order of the input rows has no part in it: the reversed table gives the *)
(* same lists.                                                             *)
Reverse(s) == [i \in DOMAIN s |-> s[Len(s) + 1 - i]]

Below(rows, v) == {q \in LossMakers(rows) : LossOf(rows, q) < v}

UpTo(rows, v) == {q \in LossMakers(rows) : LossOf(rows, q) <= v}

C10_ValuesDetermined ==
    Completed =>
       LET fd == screen.filtered_df[1]
           rows == fd.rows
           lp == screen.loss_products[1]
           makers == Cardinality(LossMakers(rows))
       IN /\ Len(lp.rows) = IF makers < 10 THEN makers ELSE 10
          /\ \A i \in DOMAIN lp.rows :
                /\ Cardinality(Below(rows, lp.rows[i]["Profit"].v)) < i
                /\ Cardinality(UpTo(rows, lp.rows[i]["Profit"].v)) >= i
          /\ \A q \in LossMakers(rows) :
                LET at == Cardinality(Below(rows, LossOf(rows, q))) + 1
                IN (Cardinality(UpTo(rows, LossOf(rows, q))) = at /\ at <= 10)
                   => lp.rows[at]["Product"] = q
          /\ lp \in LossProducts(Frame(fd.columns, Reverse(rows)))

(* P11 comes before P09 in the input and both sum to -21: in a full list   *)
(* P09 is listed before P11, and P10 is left out.                          *)
C10_Witness ==
    /\ Completed
    /\ Cardinality(LossMakers(screen.filtered_df[1].rows)) = 11
    /\ screen.loss_products[1].rows[9]["Product"] = Str("P09")
    /\ screen.loss_products[1].rows[10]["Product"] = Str("P11")
    /\ screen.loss_products[1].rows[10]["Profit"].v = -21
    /\ Str("P10") \notin Listed(screen.loss_products[1])
    /\ FirstRow(Str("P11")) < FirstRow(Str("P09"))

-----
(* C5: the "Filtered Data" sheet, read back, equals the filtered Dataset:  *)
(* the same columns and the same rows, in the same order.  Missing values  *)
(* compare equal to each other, as DataFrame.equals has them.              *)
SameCell(a, b) == a = b \/ (IsNA(a) /\ IsNA(b))

SameFrame(a, b) ==
    /\ a.columns = b.columns
    /\ Len(a.rows) = Len(b.rows)
    /\ \A i \in DOMAIN a.rows :
          \A c \in Range(a.columns) : SameCell(a.rows[i][c], b.rows[i][c])

Workbooks ==
    {screen.excel[1]}
    \cup {response[i].data : i \in {j \in DOMAIN response :
             response[j].file_name = "Retail_Sales_Report.xlsx"}}

C5_RoundTrip ==
    Completed =>
       \A book \in Workbooks :
          SameFrame(ReadExcel(book["Filtered Data"]), screen.filtered_df[1])

-----------------------------------------------------------------------------
(* C6: a malformed or incomplete file (Order Date missing or unparseable,  *)
(* or Region, Category, Sales, Profit or Product absent) fails with an     *)
(* error and nothing else: no success message, preview, KPI, chart, table  *)
(* or export artifact comes from it.                                       *)
Malformed(f) ==
    /\ f.present
    /\ \/ Range(RequiredColumns) \ Range(f.columns) # {}
       \/ \E i \in DOMAIN f.rows :
             /\ f.rows[i]["Order Date"].k = "str"
             /\ f.rows[i]["Order Date"].s \notin DOMAIN DateTexts

C6_NoPartialLoad ==
    Malformed(uploaded_file) =>
       /\ screen.error # 0
       /\ ~screen.success
       /\ \A e \in {screen.preview, screen.kpis, screen.monthly_sales,
                    screen.region_sales, screen.category_sales,
                    screen.profit_loss, screen.loss_products, screen.excel,
                    screen.pdf} : e = <<>>

-----------------------------------------------------------------------------
(* C7: at the end of every execution the KPIs, aggregates and export       *)
(* artifacts on the page are the ones computed from the current file and   *)
(* the current selection, whatever interactions came before; a download    *)
(* response carries the artifact of the current page.                      *)
SalesBy(col) ==
    LET agg == IF col = "Region" THEN screen.region_sales[1]
               ELSE screen.category_sales[1]
    IN /\ \A j \in DOMAIN agg.rows :
             agg.rows[j]["Sales"].v
                = SumOver(Dataset.rows, "Sales", LAMBDA r :
                     Selected(r) /\ r[col] = agg.rows[j][col])
       /\ \A i \in DOMAIN Dataset.rows :
             Selected(Dataset.rows[i])
             => Entry(agg, col, Dataset.rows[i][col]) # {}

C7_Fresh ==
    /\ [screen |-> screen, widgets |-> widgets]
          \in ScriptRuns(uploaded_file, widgets)
    /\ ~uploaded_file.present =>
          screen = [EmptyScreen EXCEPT !.info = TRUE]
    /\ Completed =>
          /\ screen.kpis[1] =
                [sales |-> SumOver(Dataset.rows, "Sales", Selected),
                 profit |-> SumOver(Dataset.rows, "Profit", Selected),
                 orders |-> Count(Dataset.rows, Selected)]
          /\ SalesBy("Region")
          /\ SalesBy("Category")
          /\ Len(screen.excel[1]["Filtered Data"].rows)
                = Count(Dataset.rows, Selected)
          /\ screen.pdf[1].paragraphs[3][2] = Count(Dataset.rows, Selected)
    /\ \A i \in DOMAIN response :
          response[i].data \in {screen.excel[1], screen.pdf[1]}

(* A download made after the selection was narrowed to one of two rows.    *)
C7_Witness ==
    /\ Completed
    /\ response # <<>>
    /\ Len(Dataset.rows) = 2
    /\ screen.kpis[1].orders = 1
    /\ CategorySelection = {Str("Toys")}
    /\ Cardinality(RegionSelection) = 2

====
